---- MODULE Spec2Model ----
(***************************************************************************)
(* A model of calc_props.py (entry-cli): the batch orchestrator of main,   *)
(* the worker boundary average_properties_safe, average_properties,        *)
(* parse_args, is_rotor / rotatable_bonds and calc_glob.                    *)
(*                                                                         *)
(* Time is discrete: one Tick is one unit of wall-clock time; a wait of    *)
(* iterator.next(timeout=args.timeout) lasts at most Timeout ticks. Only   *)
(* computing and waiting take time: an idle worker takes the next row and  *)
(* the loop consumes a queued result before the next Tick.                 *)
(*                                                                         *)
(* Each component has its own specification; the variables of the others   *)
(* stay at their idle values.                                              *)
(***************************************************************************)
EXTENDS Integers, Sequences, FiniteSets, TLC

\* ------------------------------------------------------------------ bounds
NumRows == 3          \* len(data): rows of the batch file
PoolSize == 2         \* Pool(): worker processes
Timeout == 2          \* args.timeout, in ticks
MaxConfs == 2         \* largest conformer ensemble
MaxPoints == 3        \* largest point cloud (atoms of one conformer)

\* the computing time of a row whose worker never returns (below every time)
Never == 0 - 1

\* a component no call has been made to; a name no assignment has reached
NoArgs == [tag |-> "none"]
Unbound == [tag |-> "unbound"]

\* Python values, tagged: None, an exception, a dict, a number (num/den; 0/0 is nan)
None == [tag |-> "None"]
Exc(e) == [tag |-> "exc", name |-> e]
Dict(d) == [tag |-> "dict", d |-> d]
Num(n, d) == [tag |-> "num", num |-> n, den |-> d]
NaN == Num(0, 0)
PyBool(b) == [tag |-> "bool", b |-> b]
IsNone(v) == v.tag = "None"
IsExc(v) == v.tag = "exc"
Truthy(v) == v.tag = "bool" /\ v.b

VARIABLES
  (* batch run of main *)
  data,      \* the rows read from the batch file: [kind, dur]
  st,        \* per row: "pending" (in the task queue), "running", "finished"
  left,      \* per row: computing time still needed
  items,     \* the iterator's _items deque: results not yet consumed
  pc,        \* orchestrator: "next", "wait", "done", "aborted"
  k,         \* iterations of the for loop completed
  waited,    \* ticks the current wait has lasted
  output,    \* rows written by writer.writerow, in order
  printed,   \* rows whose error text a worker printed
  nNone,     \* iterations that consumed a None
  nTimeout,  \* iterations that ended in TimeoutError
  taken,     \* rows whose result the loop consumed, in order
  lapsed,    \* rows running on a worker while a wait timed out
  closed,    \* the with block was left: pool terminated, file closed
  (* the other components, one call each *)
  argv,      \* parse_args: the command line
  args,      \* parse_args: the namespace returned, or the error
  bond,      \* is_rotor: the bond's attributes
  amides,    \* is_rotor: include_amides
  rotor,     \* is_rotor: the value returned
  rb,        \* rotatable_bonds: the count
  points,    \* calc_glob: the point cloud
  glob,      \* calc_glob: the value returned, or the exception
  call,      \* average_properties: the call's input
  result     \* average_properties: what the caller (main) ended with

batchVars == <<data, st, left, items, pc, k, waited, output, printed,
               nNone, nTimeout, taken, lapsed, closed>>
argVars == <<argv, args>>
rotorVars == <<bond, amides, rotor, rb>>
globVars == <<points, glob>>
avgVars == <<call, result>>
vars == <<batchVars, argVars, rotorVars, globVars, avgVars>>
notBatch == <<argVars, rotorVars, globVars, avgVars>>

Rows == 1..NumRows

\* ------------------------------------------------------------ numeric helpers
RECURSIVE SumSeq(_)
SumSeq(s) == IF s = <<>> THEN 0 ELSE Head(s) + SumSeq(Tail(s))

\* np.mean(globs): the sum over the count; nan for an empty array. The values
\* are calc_glob's, in whole numbers here.
Mean(s) ==
  IF Len(s) = 0 THEN NaN
  ELSE Num(SumSeq([i \in DOMAIN s |-> s[i].num]), Len(s))

\* ------------------------------------------------------ average_properties
\* A molecule source: whether the SMILES parses and embeds, and what calc_glob
\* gives for each conformer run_confab generated (a number, or an exception).
Raise(e) == [raised |-> TRUE, val |-> Exc(e)]
Return(v) == [raised |-> FALSE, val |-> v]

\* the name pymol after the conformer loop: bound by the loop body only
\* (pymol_bound_before_loop: pymol assigned before the loop as well)
pymol_bound_before_loop(confs) == [tag |-> "pymol"]
PymolAfterLoop(confs) == IF Len(confs) = 0 THEN Unbound ELSE [tag |-> "pymol"]

average_properties(mol) ==
  IF ~mol.parses THEN Raise("ArgumentError")      \* Chem.AddHs(None)
  ELSE IF \E i \in DOMAIN mol.confs : IsExc(mol.confs[i])
    THEN Raise("LinAlgError")                      \* calc_glob raised in the loop
  ELSE LET pymol == PymolAfterLoop(mol.confs) IN
       IF pymol = Unbound THEN Raise("UnboundLocalError")  \* rotatable_bonds(pymol)
       ELSE Return(Dict([rotatable_bonds |-> "rb",
                         globularity |-> Mean(mol.confs),
                         primary_amine |-> "amine"]))

\* the worker boundary; row: [col: the row has the smiles column, mol]
\* (safe_nocatch: the same without the try/except)
safe_nocatch(row) ==
  IF ~row.col THEN Raise("KeyError") ELSE average_properties(row.mol)
average_properties_safe(row) ==
  IF ~row.col THEN Return(None)                   \* KeyError, caught
  ELSE LET p == average_properties(row.mol) IN
       IF p.raised THEN Return(None) ELSE Return(p.val)

\* the rows of a batch file, by kind
RowKinds == {"ok", "no_column", "bad_smiles", "no_confs"}
RowOf(kind) ==
  [col |-> kind # "no_column",
   mol |-> [parses |-> kind # "bad_smiles",
            confs |-> IF kind = "no_confs" THEN <<>> ELSE <<Num(1, 1)>>]]
Fails(r) == data[r].kind # "ok"

\* ------------------------------------------------------------- batch run
Durations == {1, Timeout + 1, Never}

InitBatch ==
  /\ data \in [Rows -> [kind : RowKinds, dur : Durations]]
  /\ st = [r \in Rows |-> "pending"]
  /\ left = [r \in Rows |-> 0]
  /\ items = <<>>
  /\ pc = "next"
  /\ k = 0
  /\ waited = 0
  /\ output = <<>>
  /\ printed = {}
  /\ nNone = 0
  /\ nTimeout = 0
  /\ taken = <<>>
  /\ lapsed = {}
  /\ closed = FALSE

Running == {r \in Rows : st[r] = "running"}
Active == pc \in {"next", "wait"}

\* the pool's task handler feeds the rows in order; an idle worker takes the next
CanDispatch(r) ==
  /\ Active
  /\ st[r] = "pending"
  /\ \A q \in Rows : q < r => st[q] # "pending"
  /\ Cardinality(Running) < PoolSize

Dispatch(r) ==
  /\ CanDispatch(r)
  /\ st' = [st EXCEPT ![r] = "running"]
  /\ left' = [left EXCEPT ![r] = data[r].dur]
  /\ UNCHANGED <<data, items, pc, k, waited, output, printed, nNone, nTimeout,
                 taken, lapsed, closed, notBatch>>

\* the worker of row r returns: its result is queued for the iterator
Complete(r) ==
  /\ Active
  /\ st[r] = "running"
  /\ left[r] = 0
  /\ LET res == average_properties_safe(RowOf(data[r].kind)) IN
       /\ items' = Append(items, [row |-> r, success |-> ~res.raised, val |-> res.val])
       /\ printed' = IF res.raised \/ ~IsNone(res.val) THEN printed ELSE printed \cup {r}
  /\ st' = [st EXCEPT ![r] = "finished"]
  /\ UNCHANGED <<data, left, pc, k, waited, output, nNone, nTimeout, taken,
                 lapsed, closed, notBatch>>

\* the wait of iterator.next(timeout=args.timeout) has lasted its timeout
\* (timeout_none: next() called without a timeout)
timeout_none == FALSE
WaitExpired == waited = Timeout

\* one unit of time passes
Tick ==
  /\ Active
  /\ \A r \in Rows : ~CanDispatch(r)
  /\ \A r \in Running : left[r] # 0
  /\ pc = "wait" /\ items = <<>> /\ waited < Timeout
  /\ left' = [r \in Rows |-> IF r \in Running /\ left[r] > 0 THEN left[r] - 1 ELSE left[r]]
  /\ waited' = waited + 1
  /\ UNCHANGED <<data, st, items, pc, k, output, printed, nNone, nTimeout,
                 taken, lapsed, closed, notBatch>>

\* iterator.next finds no item and starts to wait
StartWait ==
  /\ pc = "next" /\ k < NumRows
  /\ items = <<>>
  /\ pc' = "wait"
  /\ waited' = 0
  /\ UNCHANGED <<data, st, left, items, k, output, printed, nNone, nTimeout,
                 taken, lapsed, closed, notBatch>>

\* the loop body writes the value iterator.next returned unless it is None
Writes(row) == ~IsNone(row)

\* iterator.next returns an item (at once, or woken while waiting)
NextItem ==
  /\ pc \in {"next", "wait"} /\ k < NumRows
  /\ items # <<>>
  /\ LET item == Head(items) IN
       /\ items' = Tail(items)
       /\ taken' = Append(taken, item.row)
       /\ IF ~item.success
            THEN /\ pc' = "aborted"                \* raise value: leaves main
                 /\ closed' = TRUE
                 /\ UNCHANGED <<k, output, nNone>>
            ELSE /\ pc' = "next"
                 /\ k' = k + 1
                 /\ output' = IF Writes(item.val) THEN Append(output, item.row) ELSE output
                 /\ nNone' = IF IsNone(item.val) THEN nNone + 1 ELSE nNone
                 /\ UNCHANGED closed
  /\ waited' = 0
  /\ UNCHANGED <<data, st, left, printed, nTimeout, lapsed, notBatch>>

\* the wait ends without an item: TimeoutError, caught, pass
\* (timeout_retry: a handler that does not use up an iteration of the loop)
timeout_retry ==
  /\ pc = "wait" /\ items = <<>> /\ WaitExpired
  /\ pc' = "next"
  /\ nTimeout' = nTimeout + 1
  /\ lapsed' = lapsed \cup Running
  /\ waited' = 0
  /\ UNCHANGED <<data, st, left, items, k, output, printed, nNone, taken, closed, notBatch>>
TimeoutError ==
  /\ pc = "wait" /\ items = <<>> /\ WaitExpired
  /\ pc' = "next"
  /\ k' = k + 1
  /\ nTimeout' = nTimeout + 1
  /\ lapsed' = lapsed \cup Running
  /\ waited' = 0
  /\ UNCHANGED <<data, st, left, items, output, printed, nNone, taken, closed, notBatch>>

\* the loop is over: the with block terminates the pool and closes the file
Finish ==
  /\ pc = "next" /\ k = NumRows
  /\ pc' = "done"
  /\ closed' = TRUE
  /\ UNCHANGED <<data, st, left, items, k, waited, output, printed, nNone,
                 nTimeout, taken, lapsed, notBatch>>


\* -------------------------------------------------------------- parse_args
Absent == [tag |-> "absent"]          \* an option not on the command line
Str(x) == [tag |-> "str", s |-> x]
IsGiven(v) == v.tag # "absent"
Falsy(v) == v = None \/ v = Str("")   \* Python's `not v` on None or a string

CommandLines ==
  [smiles : {Absent, Str(""), Str("CCO")},
   batch : {Absent, Str(""), Str("mols.tsv")},
   column : {Absent, Str("smi")},
   output : {Absent, Str("out.csv")},
   timeout : {Absent, Num(5, 1)}]

\* the options added to the mutually exclusive group: -s, -b and -c
ExclusiveGroup == {"smiles", "batch", "column"}

Default(v, d) == IF IsGiven(v) THEN v ELSE d

\* os.path.splitext(batch_file)[0] + '.csv', of the one file name used here
CsvName(f) == Str("mols.csv")

parse_args(a) ==
  LET ns == [smiles |-> Default(a.smiles, None),
         batch_file |-> Default(a.batch, None),
         smiles_column |-> Default(a.column, Str("canonical_smiles")),
         output |-> Default(a.output, None),
         timeout |-> Default(a.timeout, Num(10, 1))]
  IN
  IF Cardinality({x \in ExclusiveGroup : IsGiven(a[x])}) > 1
    THEN Exc("not allowed with argument")         \* parser.parse_args: exit 2
  ELSE IF Falsy(ns.smiles) /\ Falsy(ns.batch_file)
    THEN Exc("Input structure is needed")         \* parser.error: exit 2
  ELSE IF ~Falsy(ns.batch_file) /\ Falsy(ns.output)
    THEN [tag |-> "args", ns |-> [ns EXCEPT !.output = CsvName(ns.batch_file)]]
  ELSE [tag |-> "args", ns |-> ns]

\* main hands the column to every worker: partial(..., smiles_column=...)
WorkerColumn(ns) == ns.smiles_column

InitArgs ==
  /\ argv \in CommandLines
  /\ args = NoArgs

ParseArgs ==
  /\ args = NoArgs
  /\ args' = parse_args(argv)
  /\ UNCHANGED <<argv, batchVars, rotorVars, globVars, avgVars>>

\* ---------------------------------------------------- is_rotor, rotatable_bonds
MaxHvy == 2                      \* largest heavy-atom valence of a bonded atom
Orders == {1, 2, 3, 5}           \* GetBO: single, double, triple, aromatic
Hybs == {1, 2, 3}                \* GetHyb: sp, sp2, sp3
Bonds ==
  [order : Orders, amide : BOOLEAN, ring : BOOLEAN,
   hybB : Hybs, hybE : Hybs, hvyB : 0..MaxHvy, hvyE : 0..MaxHvy]

IsDouble(b) == b.order = 2

\* (is_rotor_single_only: a first rule that lets only single bonds through)
is_rotor_single_only(b, include_amides) ==
  IF b.order # 1 THEN PyBool(FALSE)
  ELSE IF b.amide /\ ~include_amides THEN PyBool(FALSE)
  ELSE IF b.ring THEN PyBool(FALSE)
  ELSE IF (b.hybB = 1) # (b.hybE = 1) THEN PyBool(FALSE)
  ELSE IF b.hvyB > 1 /\ b.hvyE > 1 THEN PyBool(TRUE)
  ELSE None
is_rotor(b, include_amides) ==
  IF IsDouble(b) THEN PyBool(FALSE)
  ELSE IF b.amide /\ ~include_amides THEN PyBool(FALSE)
  ELSE IF b.ring THEN PyBool(FALSE)        \* FindSmallestRing() is not None
  ELSE IF (b.hybB = 1) # (b.hybE = 1) THEN PyBool(FALSE)
  ELSE IF b.hvyB > 1 /\ b.hvyE > 1 THEN PyBool(TRUE)
  ELSE None                                \* the function ends without a return

\* the count over the bonds of a molecule
RECURSIVE rotatable_bonds(_)
rotatable_bonds(bonds) ==
  IF bonds = <<>> THEN 0
  ELSE (IF Truthy(is_rotor(Head(bonds), FALSE)) THEN 1 ELSE 0)
       + rotatable_bonds(Tail(bonds))

InitRotor ==
  /\ bond \in Bonds
  /\ amides \in BOOLEAN
  /\ rotor = Unbound
  /\ rb = Unbound

CallIsRotor ==
  /\ rotor = Unbound
  /\ rotor' = is_rotor(bond, amides)
  /\ UNCHANGED <<bond, amides, rb, batchVars, argVars, globVars, avgVars>>

\* rotatable_bonds of the molecule whose only bond between heavy atoms is bond
CallRotatableBonds ==
  /\ rb = Unbound
  /\ rb' = Num(rotatable_bonds(<<bond>>), 1)
  /\ UNCHANGED <<bond, amides, rotor, batchVars, argVars, globVars, avgVars>>

\* ------------------------------------------------------------------ calc_glob
Coords == {0, 1}
Points == Coords \X Coords \X Coords
Clouds == UNION {[1..n -> Points] : n \in 1..MaxPoints}

\* np.cov of the three coordinate rows, times N(N-1): entry (i, j) is
\* N * sum(x_i x_j) - sum(x_i) sum(x_j). With N = 1 the divisor N - 1 is 0 and
\* every entry of np.cov is 0 * inf = nan.
Col(pts, i) == [p \in DOMAIN pts |-> pts[p][i]]
Prod(pts, i, j) == [p \in DOMAIN pts |-> pts[p][i] * pts[p][j]]
ScaledCov(pts, i, j) ==
  Len(pts) * SumSeq(Prod(pts, i, j)) - SumSeq(Col(pts, i)) * SumSeq(Col(pts, j))
CovIsNaN(pts) == Len(pts) - 1 <= 0
IsDiagonal(pts) ==
  \A i, j \in 1..3 : i # j => ScaledCov(pts, i, j) = 0

Max3(a, b, c) == IF a >= b /\ a >= c THEN a ELSE IF b >= c THEN b ELSE c
Min3(a, b, c) == IF a <= b /\ a <= c THEN a ELSE IF b <= c THEN b ELSE c

\* for a cloud whose covariance matrix is diagonal: its eigenvalues are the
\* diagonal
calc_glob(pts) ==
  IF CovIsNaN(pts) THEN Exc("LinAlgError")   \* np.linalg.eig: Array must not contain infs or NaNs
  ELSE LET d == [i \in 1..3 |-> ScaledCov(pts, i, i)]
           first == Max3(d[1], d[2], d[3])   \* vals[0]
           last == Min3(d[1], d[2], d[3])    \* vals[-1]
       IN IF first # 0 THEN Num(last, first) ELSE Num(-1, 1)

InitGlob ==
  /\ points \in {c \in Clouds : IsDiagonal(c)}
  /\ glob = Unbound

CallCalcGlob ==
  /\ glob = Unbound
  /\ glob' = calc_glob(points)
  /\ UNCHANGED <<points, batchVars, argVars, rotorVars, avgVars>>

\* ------------------------------------------------- one molecule through main
GlobOutcomes == {Num(-1, 1), Num(0, 1), Num(1, 1), Exc("LinAlgError")}
Ensembles == UNION {[1..n -> GlobOutcomes] : n \in 0..MaxConfs}
Calls ==
  [mode : {"single", "batch"}, col : BOOLEAN, out : BOOLEAN,
   mol : [parses : BOOLEAN, confs : Ensembles]]

\* main with args.smiles: no try around average_properties; write_csv and
\* report_properties both look up keys the record does not have
main_single(c) ==
  LET p == average_properties(c.mol) IN
  IF p.raised THEN [props |-> p, ended |-> p.val, wrote |-> FALSE]
  ELSE IF c.out THEN [props |-> p, ended |-> Exc("ValueError"), wrote |-> FALSE]
  ELSE [props |-> p, ended |-> Exc("KeyError"), wrote |-> FALSE]

\* main with args.batch_file, for one row: the worker, then the loop body
main_batch_row(c) ==
  LET p == IF c.col THEN average_properties(c.mol) ELSE Raise("KeyError")
      row == average_properties_safe([col |-> c.col, mol |-> c.mol])
  IN [props |-> p, ended |-> row.val, wrote |-> Writes(row.val)]

InitAvg ==
  /\ call \in Calls
  /\ result = Unbound

SingleMolecule ==
  /\ result = Unbound /\ call.mode = "single"
  /\ result' = main_single(call)
  /\ UNCHANGED <<call, batchVars, argVars, rotorVars, globVars>>

BatchRow ==
  /\ result = Unbound /\ call.mode = "batch"
  /\ result' = main_batch_row(call)
  /\ UNCHANGED <<call, batchVars, argVars, rotorVars, globVars>>

\* ------------------------------------------------------- specifications
IdleArgs == argv = NoArgs /\ args = NoArgs
IdleRotor == bond = NoArgs /\ amides = FALSE /\ rotor = Unbound /\ rb = Unbound
IdleGlob == points = <<>> /\ glob = Unbound
IdleAvg == call = NoArgs /\ result = Unbound
IdleBatch ==
  /\ data = <<>> /\ st = <<>> /\ left = <<>> /\ items = <<>> /\ pc = "off"
  /\ k = 0 /\ waited = 0 /\ output = <<>> /\ printed = {} /\ nNone = 0
  /\ nTimeout = 0 /\ taken = <<>> /\ lapsed = {} /\ closed = FALSE

BatchInit == InitBatch /\ IdleArgs /\ IdleRotor /\ IdleGlob /\ IdleAvg
BatchNext ==
  \/ \E r \in Rows : Dispatch(r)
  \/ \E r \in Rows : Complete(r)
  \/ Tick
  \/ StartWait
  \/ NextItem
  \/ TimeoutError
  \/ Finish
SpecBatch == BatchInit /\ [][BatchNext]_vars
FairBatch == SpecBatch /\ WF_vars(BatchNext)

ArgsInit == InitArgs /\ IdleBatch /\ IdleRotor /\ IdleGlob /\ IdleAvg
ArgsNext == ParseArgs
SpecArgs == ArgsInit /\ [][ArgsNext]_vars

RotorInit == InitRotor /\ IdleBatch /\ IdleArgs /\ IdleGlob /\ IdleAvg
RotorNext == CallIsRotor \/ CallRotatableBonds
SpecRotor == RotorInit /\ [][RotorNext]_vars

GlobInit == InitGlob /\ IdleBatch /\ IdleArgs /\ IdleRotor /\ IdleAvg
GlobNext == CallCalcGlob
SpecGlob == GlobInit /\ [][GlobNext]_vars

AvgInit == InitAvg /\ IdleBatch /\ IdleArgs /\ IdleRotor /\ IdleGlob
AvgNext == SingleMolecule \/ BatchRow
SpecAvg == AvgInit /\ [][AvgNext]_vars

\* ---------------------------------------------------- claims: batch run
Range(s) == {s[i] : i \in DOMAIN s}
Slow(r) == data[r].dur = Never \/ data[r].dur > Timeout

\* row kr raises, row m computes for longer than the timeout, every other row
\* succeeds quickly
Scenario(kr, m) ==
  /\ kr # m
  /\ Fails(kr) /\ ~Slow(kr)
  /\ ~Fails(m) /\ Slow(m)
  /\ \A r \in Rows \ {kr, m} : ~Fails(r) /\ ~Slow(r)

\* C1: with one raising row kr and one row m slower than the timeout, the run
\* ends without aborting and the output holds exactly the N-2 other rows.
C1_OutputIsAllButTwo ==
  /\ pc # "aborted"
  /\ pc = "done" =>
       \A kr, m \in Rows : Scenario(kr, m) =>
         /\ Len(output) = NumRows - 2
         /\ Range(output) = Rows \ {kr, m}

\* C2: at the end every row is either Completed (written once) or Dropped, and
\* it is Dropped exactly when its worker raised or a timed wait elapsed while it
\* was dispatched; the output never has more rows than the input.
C2_OneTerminalState ==
  /\ Len(output) <= NumRows
  /\ pc = "done" =>
       \A r \in Rows :
         /\ Cardinality({i \in DOMAIN output : output[i] = r}) <= 1
         /\ (r \in Range(output)) <=> ~(Fails(r) \/ r \in lapsed)

\* C3: a row whose processing raises never aborts the run and is never written;
\* its worker prints the error and hands back None; every row whose worker
\* succeeded and whose result was consumed is written.
C3_RowErrorsIsolated ==
  /\ pc # "aborted"
  /\ \A r \in Rows : Fails(r) =>
       /\ r \notin Range(output)
       /\ st[r] = "finished" => r \in printed
       /\ \A i \in DOMAIN items : items[i].row = r =>
            items[i].success /\ IsNone(items[i].val)
  /\ \A r \in Range(taken) : ~Fails(r) => r \in Range(output)

\* a run that consumed the None of a row with no conformers and wrote a row
\* afterwards, a row of another failing kind having printed its error
C3_Witness ==
  /\ pc = "done"
  /\ \E i, j \in DOMAIN taken :
       /\ i < j
       /\ data[taken[i]].kind = "no_confs"
       /\ taken[j] \in Range(output)
  /\ \E r \in printed : data[r].kind \in {"no_column", "bad_smiles"}

\* C4: the loop never makes more than N iterations and every run ends with the
\* with block left (pool terminated, output file closed).
C4_Terminates == [](k <= NumRows) /\ <>(pc = "done" /\ closed)

\* a finished run one of whose workers never returned
C4_Witness ==
  /\ pc = "done" /\ closed
  /\ \E r \in Rows : st[r] = "running" /\ data[r].dur = Never
  /\ nTimeout >= 1

\* C10: every iteration has exactly one outcome (a row written, a None consumed,
\* a timeout), there are N of them at the end, and each timeout leaves one
\* result fewer to be consumed.
C10_OneOutcomePerWait ==
  /\ Len(output) + nNone + nTimeout = k
  /\ Len(taken) = Len(output) + nNone
  /\ pc = "done" => k = NumRows /\ Len(taken) = NumRows - nTimeout

\* a finished run with each outcome, in which a result that was late for one
\* wait was consumed by a later one
C10_Witness ==
  /\ pc = "done"
  /\ Len(output) >= 1 /\ nNone >= 1 /\ nTimeout >= 1
  /\ lapsed \cap Range(taken) # {}

\* ------------------------------------------------ claims: the other components
\* C5: a command line with a batch file and no structure string is accepted, and
\* the workers read the column named with -c, or canonical_smiles without -c.
C5_ColumnConfigurable ==
  (args # NoArgs /\ argv.batch = Str("mols.tsv") /\ argv.smiles = Absent) =>
    /\ args.tag = "args"
    /\ WorkerColumn(args.ns) = Default(argv.column, Str("canonical_smiles"))

\* the rules of the topology classifier, first match decides
RuleSays(b, include_amides) ==
  CASE b.order = 2 -> FALSE
    [] b.order # 2 /\ b.amide /\ ~include_amides -> FALSE
    [] b.order # 2 /\ ~(b.amide /\ ~include_amides) /\ b.ring -> FALSE
    [] OTHER -> IF (b.hybB = 1) # (b.hybE = 1) THEN FALSE
                ELSE b.hvyB > 1 /\ b.hvyE > 1

\* C6: is_rotor is truthy exactly when the five rules, taken in order, say
\* rotatable; never for a bond in a ring nor for a double bond; and a triple
\* bond is decided as a single bond with the same attributes is.
C6_FirstMatchingRule ==
  rotor # Unbound =>
    /\ Truthy(rotor) <=> RuleSays(bond, amides)
    /\ bond.ring => ~Truthy(rotor)
    /\ bond.order = 2 => ~Truthy(rotor)
    /\ bond.order \in {1, 3} /\ ~bond.amide /\ ~bond.ring
         /\ bond.hybB # 1 /\ bond.hybE # 1 /\ bond.hvyB > 1 /\ bond.hvyE > 1
       => Truthy(rotor)

\* a triple bond found rotatable
C6_Witness ==
  /\ rotor # Unbound /\ Truthy(rotor)
  /\ bond.order = 3

\* a bond that passes rules 1-4 and is terminal on at least one side
TerminalCase(b, include_amides) ==
  /\ b.order # 2 /\ ~(b.amide /\ ~include_amides) /\ ~b.ring
  /\ (b.hybB = 1) = (b.hybE = 1)
  /\ (b.hvyB <= 1 \/ b.hvyE <= 1)

\* C9: is_rotor returns a boolean for every bond, and the boolean false for a
\* bond that passes rules 1-4 and is terminal on at least one side.
C9_DefiniteBoolean ==
  rotor # Unbound =>
    /\ rotor.tag = "bool"
    /\ TerminalCase(bond, amides) => rotor = PyBool(FALSE)

Identical(pts) == \A i, j \in DOMAIN pts : pts[i] = pts[j]

\* C7: calc_glob of N >= 1 identical points is -1.
C7_IdenticalPointsSentinel ==
  (glob # Unbound /\ Identical(points)) => glob = Num(-1, 1)

\* C8: with an ensemble of zero conformers average_properties raises and gives
\* no record: the batch worker returns None and the row is not written, the
\* single-molecule main ends with the exception; no record ever carries the mean
\* of an empty set.
C8_EmptyEnsembleRaises ==
  result # Unbound =>
    /\ Len(call.mol.confs) = 0 =>
         /\ result.props.raised
         /\ ~result.wrote
         /\ call.mode = "batch" => IsNone(result.ended)
         /\ call.mode = "single" => IsExc(result.ended)
    /\ ~result.props.raised => result.props.val.d.globularity # NaN

\* a batch row that has its column and parses, with no conformer: dropped
C8_Witness ==
  /\ result # Unbound
  /\ call.mode = "batch" /\ call.col /\ call.mol.parses
  /\ Len(call.mol.confs) = 0
  /\ IsNone(result.ended) /\ ~result.wrote

====
